---- MODULE Spec2Model ----
(***************************************************************************)
(* learn-hub: the course catalogue, the enrollment counter and the rating  *)
(* aggregates of the courses app (src/courses), the live classes with      *)
(* their roster and chat (src/live_classes) and the materials with their   *)
(* access log (src/materials), as a state machine over the relational      *)
(* rows the request handlers read and write.                               *)
(*                                                                         *)
(* Tables are bags of rows: the database's unique_together constraints    *)
(* are modelled as the check the INSERT makes, not as the shape of the    *)
(* data, so that "one row per pair" is something the handlers establish.  *)
(* An unhandled exception in a handler is the response 500; the project   *)
(* runs Django's default autocommit, so every statement that completed    *)
(* before the exception stays written.                                    *)
(***************************************************************************)
EXTENDS Integers, FiniteSets, Bags, TLC

(***************************************************************************)
(* Bounds of the model.                                                    *)
(***************************************************************************)
\* max_students ranges over 0..MaxCapacity
MaxCapacity == 2
\* the largest rating value a request carries
MaxRatingInput == 10
\* max_participants ranges over 1..MaxParticipants
MaxParticipants == 2
\* timezone.now() reads a value in 1..MaxTime
MaxTime == 2
\* LiveClassMessage rows posted
MaxMessages == 3
\* MaterialAccess rows logged
MaxAccesses == 3

Students == {"s1", "s2", "s3"}
Teachers == {"t1", "t2"}
\* A request is served by a worker of its own.  A user has one request in
\* flight at a time, except the teacher of the live class, who may send a
\* second one while the first is being served.
SecondRequests == {"t1_again"}
caller(w) == IF w = "t1_again" THEN "t1" ELSE w
Users == Students \cup Teachers
Workers == Users \cup SecondRequests
Courses == {"c1"}
\* "c0" is an id no Course row has
CourseIds == Courses \cup {"c0"}
LiveClasses == {"l1"}
\* "l0" is an id no LiveClass row has
LiveClassIds == LiveClasses \cup {"l0"}
Materials == {"m1"}
\* "m0" is an id no Material row has
MaterialIds == Materials \cup {"m0"}

(***************************************************************************)
(* Program constants.                                                      *)
(***************************************************************************)
STATUS_CHOICES == {"draft", "published", "archived"}
\* CourseRating.rating validators
MinValueValidator == 1
MaxValueValidator == 5
\* Course.average_rating = DecimalField(max_digits=3, decimal_places=2)
max_digits == 3
decimal_places == 2

VARIABLES
    courses,      \* Course rows: id -> fields
    enrollments,  \* bag of CourseEnrollment rows
    ratings,      \* bag of CourseRating rows
    resp,         \* the request being handled and its response (code 0: none yet)
    pc,           \* position of each in-flight request, by the worker serving it
    local,        \* the model object that request holds in memory
    rated,        \* history: (student, course) pairs with a successful rate
    floored,      \* history: the last successful unenroll hit the floor of max(0, n - 1)
    live_classes, \* LiveClass rows: id -> fields
    participants, \* bag of LiveClassParticipant rows
    messages,     \* set of LiveClassMessage rows (each has its id)
    listing,      \* the listing the response carries, if it is one
    materials,    \* Material rows: id -> fields, for the ids that have a row
    accesses,     \* bag of MaterialAccess rows
    blacklisted   \* the refresh tokens that have been invalidated

vars == <<courses, enrollments, ratings, resp, pc, local, rated, floored,
          live_classes, participants, messages, listing, materials, accesses,
          blacklisted>>

\* the tables of the other apps, which the handlers of courses never touch
live_vars == <<live_classes, participants, messages, listing>>
material_vars == <<materials, accesses>>
\* the state of auth, which only logout touches
auth_vars == <<blacklisted>>
\* the state of courses that the handlers of the other apps only read
course_vars == <<courses, enrollments, ratings, pc, local, rated, floored>>

Max(a, b) == IF a >= b THEN a ELSE b

NoCourse == [teacher |-> "none", status |-> "draft", max_students |-> 0,
             current_students |-> 0, average_rating |-> 0, total_ratings |-> 0]
NoLocal == [course_id |-> "c0", course |-> NoCourse]

\* course is the id the request names: of a course, a live class or a
\* material in its URL, or the refresh token in its body, by the operation
Response(op, user, course, code, detail) ==
    [op |-> op, user |-> user, course |-> course, code |-> code, detail |-> detail]

(***************************************************************************)
(* users/models/user_model.py                                              *)
(***************************************************************************)
is_teacher(u) == u \in Teachers

(***************************************************************************)
(* courses/models.py                                                       *)
(***************************************************************************)
\* variant: the comparison made strict
is_full_strict(course) == course.current_students > course.max_students
is_full(course) == course.current_students >= course.max_students

CourseEnrollment(s, cid, active) == [student |-> s, course |-> cid, is_active |-> active]

\* variant: the table without its unique constraint
no_enrollment_constraint(rows, s, cid) == FALSE
\* unique_together = ['student', 'course']: the INSERT raises IntegrityError
enrollment_unique_together(rows, s, cid) ==
    \E r \in BagToSet(rows) : r.student = s /\ r.course = cid

(***************************************************************************)
(* courses/views.py: queries                                               *)
(***************************************************************************)
\* Course.objects.get(id=course_id)
get_any_course(cid) == cid \in DOMAIN courses
\* Course.objects.get(id=course_id, status='published')
get_published_course(cid) == cid \in DOMAIN courses /\ courses[cid].status = "published"

\* variant: the query without its is_active=True filter
any_enrollment_exists(rows, s, cid) ==
    \E r \in BagToSet(rows) : r.student = s /\ r.course = cid
\* CourseEnrollment.objects.filter(student=, course=, is_active=True).exists()
active_enrollment_exists(rows, s, cid) ==
    BagIn(CourseEnrollment(s, cid, TRUE), rows)

\* course.current_students += 1
students_after_enroll(n) == n + 1

\* variants: the counter left alone, and decremented without the floor
students_not_decremented(n) == n
students_unfloored(n) == n - 1
\* course.current_students = max(0, course.current_students - 1)
students_after_unenroll(n) == Max(0, n - 1)

\* counting rows of a table, for the properties below
ActiveCount(rows, cid) ==
    LET S == {r \in BagToSet(rows) : r.course = cid /\ r.is_active}
    IN  IF S = {} THEN 0
        ELSE LET f[T \in SUBSET S] ==
                     IF T = {} THEN 0
                     ELSE LET r == CHOOSE x \in T : TRUE
                          IN  CopiesIn(r, rows) + f[T \ {r}]
             IN  f[S]

RowCount(rows, s, cid) ==
    LET S == {r \in BagToSet(rows) : r.course = cid /\ r.student = s}
    IN  LET f[T \in SUBSET S] ==
                IF T = {} THEN 0
                ELSE LET r == CHOOSE x \in T : TRUE
                     IN  CopiesIn(r, rows) + f[T \ {r}]
        IN  f[S]

(***************************************************************************)
(* courses/views.py: enroll_course, one request run to completion          *)
(***************************************************************************)
enroll_course(s, cid) ==
    /\ pc[s] = "idle"
    /\ UNCHANGED <<live_vars, material_vars, auth_vars>>
    /\ UNCHANGED <<ratings, pc, local, rated, floored>>
    /\ IF ~get_published_course(cid)
       THEN /\ resp' = Response("enroll", s, cid, 404, "Course not found")
            /\ UNCHANGED <<courses, enrollments>>
       ELSE IF is_full(courses[cid])
       THEN /\ resp' = Response("enroll", s, cid, 400, "Course is full")
            /\ UNCHANGED <<courses, enrollments>>
       ELSE IF active_enrollment_exists(enrollments, s, cid)
       THEN /\ resp' = Response("enroll", s, cid, 400, "Already enrolled")
            /\ UNCHANGED <<courses, enrollments>>
       ELSE IF enrollment_unique_together(enrollments, s, cid)
       THEN \* objects.create() raises IntegrityError before the counter is touched
            /\ resp' = Response("enroll", s, cid, 500, "IntegrityError")
            /\ UNCHANGED <<courses, enrollments>>
       ELSE /\ enrollments' = enrollments (+) SetToBag({CourseEnrollment(s, cid, TRUE)})
            /\ courses' = [courses EXCEPT ![cid].current_students =
                               students_after_enroll(@)]
            /\ resp' = Response("enroll", s, cid, 201, "created")

(***************************************************************************)
(* courses/views.py: unenroll_course                                       *)
(***************************************************************************)
unenroll_course(s, cid) ==
    /\ pc[s] = "idle"
    /\ UNCHANGED <<live_vars, material_vars, auth_vars>>
    /\ UNCHANGED <<ratings, pc, local, rated>>
    /\ IF ~active_enrollment_exists(enrollments, s, cid)
       THEN /\ resp' = Response("unenroll", s, cid, 404, "Enrollment not found")
            /\ UNCHANGED <<courses, enrollments, floored>>
       ELSE /\ enrollments' = (enrollments (-) SetToBag({CourseEnrollment(s, cid, TRUE)}))
                                  (+) SetToBag({CourseEnrollment(s, cid, FALSE)})
            /\ courses' = [courses EXCEPT ![cid].current_students =
                               students_after_unenroll(@)]
            /\ floored' = (courses[cid].current_students - 1 < 0)
            /\ resp' = Response("unenroll", s, cid, 200, "Successfully unenrolled")

(***************************************************************************)
(* courses/views.py: CourseDetailView, PUT/PATCH through                   *)
(* CourseUpdateSerializer (status and max_students are writable fields)    *)
(***************************************************************************)
IsTeacherOrReadOnly(u) == is_teacher(u)

update_course(u, cid, st, mx) ==
    /\ pc[u] = "idle"
    /\ UNCHANGED <<live_vars, material_vars, auth_vars>>
    /\ UNCHANGED <<enrollments, ratings, pc, local, rated, floored>>
    /\ IF ~IsTeacherOrReadOnly(u)
       THEN /\ resp' = Response("update", u, cid, 403, "Forbidden")
            /\ UNCHANGED courses
       ELSE IF ~get_any_course(cid)
       THEN /\ resp' = Response("update", u, cid, 404, "Not found")
            /\ UNCHANGED courses
       ELSE /\ courses' = [courses EXCEPT ![cid].status = st, ![cid].max_students = mx]
            /\ resp' = Response("update", u, cid, 200, "updated")

(***************************************************************************)
(* courses/models.py: CourseRating, and Course.average_rating as the       *)
(* DecimalField stores it.  average_rating is kept in units of             *)
(* 10^-decimal_places (hundredths).                                        *)
(***************************************************************************)
CourseRating(s, cid, r) == [student |-> s, course |-> cid, rating |-> r]

RECURSIVE Pow10(_)
Pow10(k) == IF k = 0 THEN 1 ELSE 10 * Pow10(k - 1)

\* variant: truncation
RoundDown(num, den) == num \div den
\* decimal's ROUND_HALF_EVEN of num / den, for num >= 0 and den > 0
RoundHalfEven(num, den) ==
    LET q == num \div den
        r == num % den
    IN  IF 2 * r < den THEN q
        ELSE IF 2 * r > den THEN q + 1
        ELSE IF q % 2 = 0 THEN q ELSE q + 1

InvalidOperation == -1

\* DecimalField.to_python(float): Context(prec=max_digits).create_decimal_from_float,
\* then format_number: quantize to decimal_places under the same precision,
\* which raises InvalidOperation when the result needs more than max_digits
\* digits.  The float sum / n is taken as the exact quotient (it differs from
\* it only at a decimal tie the float cannot represent, which needs 40 or
\* more ratings).
average_rating_to_db(sum, n) ==
    IF sum = 0 THEN 0
    ELSE IF sum >= Pow10(max_digits - decimal_places) * n THEN InvalidOperation
    ELSE LET sc == CHOOSE k \in {Pow10(e) : e \in decimal_places..(decimal_places + 4)} :
                       /\ sum * k >= Pow10(max_digits - 1) * n
                       /\ sum * k < Pow10(max_digits) * n
             q == RoundHalfEven(sum * sc, n)
             h == RoundHalfEven(q, sc \div Pow10(decimal_places))
         IN  IF h >= Pow10(max_digits) THEN InvalidOperation ELSE h

\* course.ratings.all()
course_ratings(rows, cid) == {r \in BagToSet(rows) : r.course = cid}

\* sum(r.rating for r in ratings)
sum_ratings(rows, cid) ==
    LET S == course_ratings(rows, cid)
        f[T \in SUBSET S] ==
            IF T = {} THEN 0
            ELSE LET r == CHOOSE x \in T : TRUE
                 IN  r.rating * CopiesIn(r, rows) + f[T \ {r}]
    IN  f[S]

\* len(ratings)
len_ratings(rows, cid) ==
    LET S == course_ratings(rows, cid)
        f[T \in SUBSET S] ==
            IF T = {} THEN 0
            ELSE LET r == CHOOSE x \in T : TRUE
                 IN  CopiesIn(r, rows) + f[T \ {r}]
    IN  f[S]

\* request.data.get(key, default): rt is the set of values sent under the key
data_get(rt, default) == IF rt = {} THEN default ELSE CHOOSE v \in rt : TRUE

(***************************************************************************)
(* courses/views.py: rate_course                                           *)
(***************************************************************************)
rate_course(s, cid, rt) ==
    /\ pc[s] = "idle"
    /\ UNCHANGED <<live_vars, material_vars, auth_vars>>
    /\ UNCHANGED <<enrollments, pc, local, floored>>
    /\ IF ~get_any_course(cid)
       THEN /\ resp' = Response("rate", s, cid, 404, "Course not found")
            /\ UNCHANGED <<courses, ratings, rated>>
       ELSE IF ~active_enrollment_exists(enrollments, s, cid)
       THEN /\ resp' = Response("rate", s, cid, 400, "Must be enrolled to rate")
            /\ UNCHANGED <<courses, ratings, rated>>
       ELSE LET old == {r \in BagToSet(ratings) : r.student = s /\ r.course = cid}
                created == (old = {})
            IN  IF created /\ rt = {}
                THEN \* get_or_create inserts rating = None: NOT NULL, IntegrityError
                     /\ resp' = Response("rate", s, cid, 500, "IntegrityError")
                     /\ UNCHANGED <<courses, ratings, rated>>
                ELSE LET written ==
                             IF created
                             THEN ratings (+) SetToBag({CourseRating(s, cid, data_get(rt, 0))})
                             ELSE LET o == CHOOSE r \in old : TRUE
                                  IN  (ratings (-) SetToBag({o})) (+)
                                      SetToBag({CourseRating(s, cid, data_get(rt, o.rating))})
                         n == len_ratings(written, cid)
                         avg == average_rating_to_db(sum_ratings(written, cid), n)
                     IN  /\ ratings' = written
                         /\ IF n = 0
                            THEN /\ UNCHANGED courses
                                 /\ rated' = rated \cup {<<s, cid>>}
                                 /\ resp' = Response("rate", s, cid,
                                                IF created THEN 201 ELSE 200, "rated")
                            ELSE IF avg = InvalidOperation
                            THEN \* course.save() raises after the rating row is written
                                 /\ UNCHANGED <<courses, rated>>
                                 /\ resp' = Response("rate", s, cid, 500, "InvalidOperation")
                            ELSE /\ courses' = [courses EXCEPT
                                                  ![cid].average_rating = avg,
                                                  ![cid].total_ratings = n]
                                 /\ rated' = rated \cup {<<s, cid>>}
                                 /\ resp' = Response("rate", s, cid,
                                                IF created THEN 201 ELSE 200, "rated")

(***************************************************************************)
(* live_classes/models.py.  A DateTimeField is NULL or a clock reading;    *)
(* the clock runs forward, so timezone.now() returns a reading later than  *)
(* every reading already stored (the readings stop at MaxTime).            *)
(***************************************************************************)
NULL == 0
Timestamps == 1..MaxTime

LIVE_STATUS_CHOICES == {"scheduled", "live", "ended", "cancelled"}
PARTICIPANT_STATUS_CHOICES == {"registered", "approved", "attended", "no_show", "cancelled"}
\* status__in=['registered', 'approved', 'attended']
CountedStatuses == {"registered", "approved", "attended"}

LiveClass(teacher, cid, mx, approval) ==
    [teacher |-> teacher, course |-> cid, status |-> "scheduled",
     started_at |-> NULL, ended_at |-> NULL,
     max_participants |-> mx, current_participants |-> 0,
     requires_approval |-> approval]

LiveClassParticipant(s, lcid, st) ==
    [student |-> s, live_class |-> lcid, status |-> st,
     approved_by |-> "none", approved_at |-> NULL]
\* an id no LiveClassParticipant row has
NoParticipant == LiveClassParticipant("none", "l0", "cancelled")

\* variant: the comparison made strict
live_class_is_full_strict(lc) == lc.current_participants > lc.max_participants
\* LiveClass.is_full
live_class_is_full(lc) == lc.current_participants >= lc.max_participants

\* variants of the status tests of start and end
is_not_ended(lc) == lc.status # "ended"
is_not_cancelled(lc) == lc.status # "cancelled"
\* live_class.status != 'scheduled' / != 'live', negated
is_scheduled(lc) == lc.status = "scheduled"
is_live(lc) == lc.status = "live"

timezone_now ==
    LET stored == {live_classes[l].started_at : l \in DOMAIN live_classes}
                    \cup {live_classes[l].ended_at : l \in DOMAIN live_classes}
                    \cup {p.approved_at : p \in BagToSet(participants)}
        latest == CHOOSE x \in stored : \A y \in stored : x >= y
    IN  IF latest < MaxTime THEN latest + 1 ELSE MaxTime

(***************************************************************************)
(* live_classes/views.py: queries                                          *)
(***************************************************************************)
\* users/permissions.py: IsTeacher
IsTeacher(u) == is_teacher(u)

\* LiveClass.objects.get(id=live_class_id)
get_live_class(lcid) == lcid \in DOMAIN live_classes
\* LiveClass.objects.get(id=live_class_id, teacher=request.user)
get_own_live_class(lcid, u) == lcid \in DOMAIN live_classes /\ live_classes[lcid].teacher = u

\* the rows of LiveClassParticipant.objects.filter(student=, live_class=)
participations(rows, s, lcid) ==
    {p \in BagToSet(rows) : p.student = s /\ p.live_class = lcid}

\* get_or_create: the lookup finds a row of the pair
participation_found(rows, s, lcid) == participations(rows, s, lcid) # {}

\* variant: every join registers the row anew
status_reset_by_join(st) == "registered"
\* if not created and participation.status == 'cancelled': status = 'registered'
status_after_join(st) == IF st = "cancelled" THEN "registered" ELSE st

\* live_class.participants.filter(status__in=[...]).count()
count_participants(rows, lcid) ==
    LET S == {p \in BagToSet(rows) : p.live_class = lcid /\ p.status \in CountedStatuses}
        f[T \in SUBSET S] ==
            IF T = {} THEN 0
            ELSE LET p == CHOOSE x \in T : TRUE
                 IN  CopiesIn(p, rows) + f[T \ {p}]
    IN  f[S]

\* variant: the lookup without live_class__teacher=request.user
participation_of_any_teacher(p, rows, lcid, u) ==
    BagIn(p, rows) /\ p.live_class = lcid
\* LiveClassParticipant.objects.get(id=, live_class_id=, live_class__teacher=request.user)
participation_of_teacher(p, rows, lcid, u) ==
    /\ BagIn(p, rows)
    /\ p.live_class = lcid
    /\ p.live_class \in DOMAIN live_classes
    /\ live_classes[p.live_class].teacher = u

(***************************************************************************)
(* live_classes/views.py: start_live_class and end_live_class              *)
(***************************************************************************)
start_live_class(u, lcid) ==
    /\ UNCHANGED <<course_vars, participants, messages, listing, material_vars, auth_vars>>
    /\ IF ~IsTeacher(u)
       THEN /\ resp' = Response("start", u, lcid, 403, "Forbidden")
            /\ UNCHANGED live_classes
       ELSE IF ~get_own_live_class(lcid, u)
       THEN /\ resp' = Response("start", u, lcid, 404, "Live class not found")
            /\ UNCHANGED live_classes
       ELSE IF ~is_scheduled(live_classes[lcid])
       THEN /\ resp' = Response("start", u, lcid, 400, "Live class is not scheduled")
            /\ UNCHANGED live_classes
       ELSE /\ live_classes' = [live_classes EXCEPT ![lcid].status = "live",
                                                    ![lcid].started_at = timezone_now]
            /\ resp' = Response("start", u, lcid, 200, "started")

end_live_class(u, lcid) ==
    /\ UNCHANGED <<course_vars, participants, messages, listing, material_vars, auth_vars>>
    /\ IF ~IsTeacher(u)
       THEN /\ resp' = Response("end", u, lcid, 403, "Forbidden")
            /\ UNCHANGED live_classes
       ELSE IF ~get_own_live_class(lcid, u)
       THEN /\ resp' = Response("end", u, lcid, 404, "Live class not found")
            /\ UNCHANGED live_classes
       ELSE IF ~is_live(live_classes[lcid])
       THEN /\ resp' = Response("end", u, lcid, 400, "Live class is not live")
            /\ UNCHANGED live_classes
       ELSE /\ live_classes' = [live_classes EXCEPT ![lcid].status = "ended",
                                                    ![lcid].ended_at = timezone_now]
            /\ resp' = Response("end", u, lcid, 200, "ended")

(***************************************************************************)
(* live_classes/views.py: LiveClassDetailView, PUT/PATCH through           *)
(* LiveClassUpdateSerializer (status and max_participants are writable     *)
(* fields; status is validated against STATUS_CHOICES only)                *)
(***************************************************************************)
update_live_class(u, lcid, st, mx) ==
    /\ UNCHANGED <<course_vars, participants, messages, listing, material_vars, auth_vars>>
    /\ IF ~IsTeacherOrReadOnly(u)
       THEN /\ resp' = Response("update_live_class", u, lcid, 403, "Forbidden")
            /\ UNCHANGED live_classes
       ELSE IF ~get_live_class(lcid)
       THEN /\ resp' = Response("update_live_class", u, lcid, 404, "Not found")
            /\ UNCHANGED live_classes
       ELSE /\ live_classes' = [live_classes EXCEPT ![lcid].status = st,
                                                    ![lcid].max_participants = mx]
            /\ resp' = Response("update_live_class", u, lcid, 200, "updated")

(***************************************************************************)
(* live_classes/views.py: join_live_class.  get_or_create looks the row    *)
(* of the pair up and INSERTs one when there is none; the INSERT is        *)
(* subject to unique_together = ['student', 'live_class'].                 *)
(***************************************************************************)
\* unique_together = ['student', 'live_class']: the INSERT raises IntegrityError
participant_unique_together(rows, s, lcid) ==
    \E p \in BagToSet(rows) : p.student = s /\ p.live_class = lcid

\* objects.get() of the pair returns exactly one row
one_participation(rows, s, lcid) ==
    /\ Cardinality(participations(rows, s, lcid)) = 1
    /\ \A p \in participations(rows, s, lcid) : CopiesIn(p, rows) = 1

\* participation.save() after a change of the row's fields
save_participation(rows, old, new) ==
    (rows (-) SetToBag({old})) (+) SetToBag({new})

join_live_class(u, lcid) ==
    /\ UNCHANGED <<course_vars, messages, listing, material_vars, auth_vars>>
    /\ IF ~get_live_class(lcid)
       THEN /\ resp' = Response("join", u, lcid, 404, "Live class not found")
            /\ UNCHANGED <<live_classes, participants>>
       ELSE IF ~active_enrollment_exists(enrollments, u, live_classes[lcid].course)
       THEN /\ resp' = Response("join", u, lcid, 403, "Must be enrolled to join")
            /\ UNCHANGED <<live_classes, participants>>
       ELSE IF live_class_is_full(live_classes[lcid])
       THEN /\ resp' = Response("join", u, lcid, 400, "Live class is full")
            /\ UNCHANGED <<live_classes, participants>>
       ELSE IF participation_found(participants, u, lcid)
       THEN IF ~one_participation(participants, u, lcid)
            THEN /\ resp' = Response("join", u, lcid, 500, "MultipleObjectsReturned")
                 /\ UNCHANGED <<live_classes, participants>>
            ELSE LET old == CHOOSE p \in participations(participants, u, lcid) : TRUE
                     new == [old EXCEPT !.status = status_after_join(@)]
                     written == save_participation(participants, old, new)
                 IN  /\ participants' = written
                     /\ live_classes' = [live_classes EXCEPT ![lcid].current_participants =
                                             count_participants(written, lcid)]
                     /\ resp' = Response("join", u, lcid, 200, "joined")
       ELSE IF participant_unique_together(participants, u, lcid)
       THEN /\ resp' = Response("join", u, lcid, 500, "IntegrityError")
            /\ UNCHANGED <<live_classes, participants>>
       ELSE LET written == participants (+)
                               SetToBag({LiveClassParticipant(u, lcid, "registered")})
            IN  /\ participants' = written
                /\ live_classes' = [live_classes EXCEPT ![lcid].current_participants =
                                        count_participants(written, lcid)]
                /\ resp' = Response("join", u, lcid, 201, "joined")

(***************************************************************************)
(* live_classes/views.py: leave_live_class                                 *)
(***************************************************************************)
leave_live_class(u, lcid) ==
    /\ UNCHANGED <<course_vars, messages, listing, material_vars, auth_vars>>
    /\ IF ~participation_found(participants, u, lcid)
       THEN /\ resp' = Response("leave", u, lcid, 404, "Participation not found")
            /\ UNCHANGED <<live_classes, participants>>
       ELSE IF ~one_participation(participants, u, lcid)
       THEN /\ resp' = Response("leave", u, lcid, 500, "MultipleObjectsReturned")
            /\ UNCHANGED <<live_classes, participants>>
       ELSE LET old == CHOOSE p \in participations(participants, u, lcid) : TRUE
                new == [old EXCEPT !.status = "cancelled"]
                written == save_participation(participants, old, new)
            IN  /\ participants' = written
                /\ live_classes' = [live_classes EXCEPT ![lcid].current_participants =
                                        count_participants(written, lcid)]
                /\ resp' = Response("leave", u, lcid, 200, "Successfully left live class")

(***************************************************************************)
(* live_classes/views.py: approve_participant; p is the row participant_id *)
(* names (NoParticipant: no row has that id).  The handler does not touch  *)
(* the LiveClass row.  The detail of the response is the student of the    *)
(* row the request named.                                                  *)
(***************************************************************************)
approve_participant(u, lcid, p) ==
    /\ UNCHANGED <<course_vars, live_classes, messages, listing, material_vars, auth_vars>>
    /\ IF ~IsTeacher(u)
       THEN /\ resp' = Response("approve", u, lcid, 403, p.student)
            /\ UNCHANGED participants
       ELSE IF ~participation_of_teacher(p, participants, lcid, u)
       THEN /\ resp' = Response("approve", u, lcid, 404, p.student)
            /\ UNCHANGED participants
       ELSE /\ participants' = save_participation(participants, p,
                                   [p EXCEPT !.status = "approved",
                                             !.approved_by = u,
                                             !.approved_at = timezone_now])
            /\ resp' = Response("approve", u, lcid, 200, p.student)

(***************************************************************************)
(* live_classes/admin.py: LiveClassParticipantAdmin, the change form of a  *)
(* participant row; status is an editable field, and it is the only way a  *)
(* row becomes 'attended' or 'no_show'                                     *)
(***************************************************************************)
admin_change_participant(p, st) ==
    /\ BagIn(p, participants)
    /\ UNCHANGED <<course_vars, live_classes, messages, listing, material_vars, auth_vars>>
    /\ participants' = save_participation(participants, p, [p EXCEPT !.status = st])
    /\ resp' = Response("admin_change", "admin", p.live_class, 200, p.student)

(***************************************************************************)
(* live_classes: the chat.  POST goes through                              *)
(* LiveClassMessageCreateSerializer, which takes live_class and            *)
(* parent_message from the request body and sets sender to the caller;     *)
(* parent_message is NULL or the id of a stored message.                   *)
(***************************************************************************)
LiveClassMessage(id, lcid, u, private, parent) ==
    [id |-> id, live_class |-> lcid, sender |-> u, is_private |-> private,
     parent_message |-> parent]

\* a response that is no listing
NoListing == [user |-> "none", live_class |-> "l0", entries |-> {}]

\* the serializer's is_valid(): the live class and the parent exist
message_is_valid(lcid, parent) ==
    /\ lcid \in DOMAIN live_classes
    /\ parent = NULL \/ \E m \in messages : m.id = parent

post_message(u, lcid, private, parent) ==
    /\ Cardinality(messages) < MaxMessages
    /\ UNCHANGED <<course_vars, live_classes, participants, material_vars, auth_vars>>
    /\ listing' = NoListing
    /\ IF ~message_is_valid(lcid, parent)
       THEN /\ resp' = Response("post_message", u, lcid, 400, "invalid")
            /\ UNCHANGED messages
       ELSE /\ messages' = messages \cup
                  {LiveClassMessage(Cardinality(messages) + 1, lcid, u, private, parent)}
            /\ resp' = Response("post_message", u, lcid, 201, "created")

\* LiveClassMessageListView.get_queryset: the top-level entries of the listing
get_queryset(u, lcid) ==
    IF is_teacher(u) /\ live_classes[lcid].teacher = u
    THEN {m \in messages : m.live_class = lcid}
    ELSE {m \in messages : m.live_class = lcid /\ ~m.is_private}
             \cup {m \in messages : m.live_class = lcid /\ m.sender = u}

\* LiveClassMessageSerializer.get_replies: obj.replies.all(), each reply
\* serialized with its own replies; the result is every message nested
\* under m at any depth
RECURSIVE get_replies(_)
get_replies(m) ==
    LET replies == {r \in messages : r.parent_message = m.id}
    IN  replies \cup UNION {get_replies(r) : r \in replies}

list_messages(u, lcid) ==
    /\ UNCHANGED <<course_vars, live_classes, participants, messages, material_vars, auth_vars>>
    /\ IF ~get_live_class(lcid)
       THEN \* LiveClass.objects.get raises DoesNotExist in get_queryset
            /\ resp' = Response("list_messages", u, lcid, 500, "DoesNotExist")
            /\ listing' = NoListing
       ELSE /\ resp' = Response("list_messages", u, lcid, 200, "listed")
            /\ listing' = [user |-> u, live_class |-> lcid,
                           entries |-> {[message |-> m, replies |-> get_replies(m)] :
                                           m \in get_queryset(u, lcid)}]

(***************************************************************************)
(* materials/models.py and materials/views.py.  The file of a Material     *)
(* row is stored when the row is created, and no request removes it.       *)
(***************************************************************************)
Material(teacher, cid, public, downloadable) ==
    [teacher |-> teacher, course |-> cid, is_public |-> public,
     is_downloadable |-> downloadable, download_count |-> 0, view_count |-> 0,
     file_stored |-> TRUE]

MaterialAccess(u, mid, action) == [student |-> u, material |-> mid, action |-> action]

\* Material.objects.get(id=material_id)
get_material(mid) == mid \in DOMAIN materials

\* variant: the test without the comparison of material.teacher
is_any_teacher(u, m) == is_teacher(u)
\* request.user.is_teacher and material.teacher == request.user
is_material_teacher(u, m) == is_teacher(u) /\ m.teacher = u

\* variant: the counter incremented twice
count_after_two(n) == n + 2
\* material.download_count += 1, material.view_count += 1
count_after_access(n) == n + 1

download_material(u, mid) ==
    /\ UNCHANGED <<course_vars, live_vars, auth_vars>>
    /\ IF ~get_material(mid)
       THEN /\ resp' = Response("download", u, mid, 404, "Material not found")
            /\ UNCHANGED material_vars
       ELSE IF ~materials[mid].is_downloadable
       THEN /\ resp' = Response("download", u, mid, 403, "Material is not downloadable")
            /\ UNCHANGED material_vars
       ELSE IF /\ ~is_material_teacher(u, materials[mid])
               /\ ~active_enrollment_exists(enrollments, u, materials[mid].course)
       THEN /\ resp' = Response("download", u, mid, 403, "Access denied")
            /\ UNCHANGED material_vars
       ELSE /\ BagCardinality(accesses) < MaxAccesses
            /\ accesses' = accesses (+) SetToBag({MaterialAccess(u, mid, "download")})
            /\ materials' = [materials EXCEPT ![mid].download_count = count_after_access(@)]
            /\ IF materials[mid].file_stored
               THEN resp' = Response("download", u, mid, 200, "file")
               ELSE \* FileResponse raises FileNotFoundError, after the writes
                    resp' = Response("download", u, mid, 404, "File not found")

view_material(u, mid) ==
    /\ UNCHANGED <<course_vars, live_vars, auth_vars>>
    /\ IF ~get_material(mid)
       THEN /\ resp' = Response("view", u, mid, 404, "Material not found")
            /\ UNCHANGED material_vars
       ELSE IF /\ ~is_material_teacher(u, materials[mid])
               /\ ~active_enrollment_exists(enrollments, u, materials[mid].course)
       THEN /\ resp' = Response("view", u, mid, 403, "Access denied")
            /\ UNCHANGED material_vars
       ELSE /\ BagCardinality(accesses) < MaxAccesses
            /\ accesses' = accesses (+) SetToBag({MaterialAccess(u, mid, "view")})
            /\ materials' = [materials EXCEPT ![mid].view_count = count_after_access(@)]
            /\ resp' = Response("view", u, mid, 200, "View recorded successfully")

(***************************************************************************)
(* materials/views.py: MaterialDetailView.  PUT/PATCH go through           *)
(* MaterialUpdateSerializer (is_public and is_downloadable are writable);  *)
(* DELETE removes the row, and with it every row whose ForeignKey to it    *)
(* is on_delete=CASCADE: MaterialAccess.material is one.                   *)
(***************************************************************************)
update_material(u, mid, public, downloadable) ==
    /\ UNCHANGED <<course_vars, live_vars, accesses, auth_vars>>
    /\ IF ~IsTeacherOrReadOnly(u)
       THEN /\ resp' = Response("update_material", u, mid, 403, "Forbidden")
            /\ UNCHANGED materials
       ELSE IF ~get_material(mid)
       THEN /\ resp' = Response("update_material", u, mid, 404, "Not found")
            /\ UNCHANGED materials
       ELSE /\ materials' = [materials EXCEPT ![mid].is_public = public,
                                              ![mid].is_downloadable = downloadable]
            /\ resp' = Response("update_material", u, mid, 200, "updated")

\* the rows left after the cascade of Material mid's deletion
on_delete_CASCADE(rows, mid) ==
    [r \in {x \in BagToSet(rows) : x.material # mid} |-> CopiesIn(r, rows)]

delete_material(u, mid) ==
    /\ UNCHANGED <<course_vars, live_vars, auth_vars>>
    /\ IF ~IsTeacherOrReadOnly(u)
       THEN /\ resp' = Response("delete_material", u, mid, 403, "Forbidden")
            /\ UNCHANGED material_vars
       ELSE IF ~get_material(mid)
       THEN /\ resp' = Response("delete_material", u, mid, 404, "Not found")
            /\ UNCHANGED material_vars
       ELSE /\ materials' = [m \in DOMAIN materials \ {mid} |-> materials[m]]
            /\ accesses' = on_delete_CASCADE(accesses, mid)
            /\ resp' = Response("delete_material", u, mid, 204, "deleted")

(***************************************************************************)
(* materials/views.py: material_stats, which only reads                    *)
(***************************************************************************)
material_stats(u, mid) ==
    /\ UNCHANGED <<course_vars, live_vars, material_vars, auth_vars>>
    /\ IF ~get_material(mid)
       THEN resp' = Response("stats", u, mid, 404, "Material not found")
       ELSE IF ~is_material_teacher(u, materials[mid])
       THEN resp' = Response("stats", u, mid, 403, "Access denied")
       ELSE resp' = Response("stats", u, mid, 200, "stats")

(***************************************************************************)
(* courses/views.py: CourseListView (GET) and CourseDetailView (DELETE).   *)
(* The rows that point at a deleted course by a ForeignKey with            *)
(* on_delete=CASCADE go with it, and so do the rows that point at those.   *)
(***************************************************************************)
\* CourseListView.get_queryset
CourseListView_get_queryset(u) ==
    IF ~is_teacher(u)
    THEN {c \in DOMAIN courses : courses[c].status = "published"}
    ELSE DOMAIN courses

list_courses(u) ==
    /\ UNCHANGED <<course_vars, live_classes, participants, messages, material_vars, auth_vars>>
    /\ resp' = Response("list_courses", u, "c0", 200, "listed")
    /\ listing' = [user |-> u, live_class |-> "l0",
                   entries |-> CourseListView_get_queryset(u)]

\* the rows of a table (a bag) that the cascade leaves
rows_kept(rows, kept) ==
    [r \in BagToSet(rows) \cap kept |-> CopiesIn(r, rows)]

delete_course(u, cid) ==
    /\ pc[u] = "idle"
    /\ UNCHANGED <<pc, local, rated, floored, listing, auth_vars>>
    /\ IF ~IsTeacherOrReadOnly(u)
       THEN /\ resp' = Response("delete", u, cid, 403, "Forbidden")
            /\ UNCHANGED <<courses, enrollments, ratings, live_classes,
                           participants, messages, material_vars>>
       ELSE IF ~get_any_course(cid)
       THEN /\ resp' = Response("delete", u, cid, 404, "Not found")
            /\ UNCHANGED <<courses, enrollments, ratings, live_classes,
                           participants, messages, material_vars>>
       ELSE LET lcs == {l \in DOMAIN live_classes : live_classes[l].course # cid}
                ms  == {m \in DOMAIN materials : materials[m].course # cid}
                of_other_course(rows) == {r \in BagToSet(rows) : r.course # cid}
                of_kept_live_class == {r \in BagToSet(participants) : r.live_class \in lcs}
                of_kept_material == {r \in BagToSet(accesses) : r.material \in ms}
            IN  /\ courses' = [c \in DOMAIN courses \ {cid} |-> courses[c]]
                /\ enrollments' = rows_kept(enrollments, of_other_course(enrollments))
                /\ ratings' = rows_kept(ratings, of_other_course(ratings))
                /\ live_classes' = [l \in lcs |-> live_classes[l]]
                /\ participants' = rows_kept(participants, of_kept_live_class)
                /\ messages' = {m \in messages : m.live_class \in lcs}
                /\ materials' = [m \in ms |-> materials[m]]
                /\ accesses' = rows_kept(accesses, of_kept_material)
                /\ resp' = Response("delete", u, cid, 204, "deleted")

(***************************************************************************)
(* auth/views.py: logout, auth/services/logout_user_service.py and         *)
(* auth/utils/tokens.py.  A refresh token in a request is one that login   *)
(* issued, a string that is no token, or absent (request.data.get gives    *)
(* None).                                                                  *)
(***************************************************************************)
RefreshTokens == {"r1", "r2"}
NoToken == "none"
TokenInputs == RefreshTokens \cup {"malformed", NoToken}

\* RefreshToken(token) does not raise: the token is well-formed and is not
\* on the blacklist
RefreshToken(token) == token \in RefreshTokens /\ token \notin blacklisted

\* the try/except of blacklist_refresh_token: any exception is swallowed
blacklist_refresh_token(token) ==
    IF RefreshToken(token) THEN blacklisted \cup {token} ELSE blacklisted

\* LogoutUserService.execute raises ValueError before it reaches the
\* try/except; the view does not catch it, nor does the framework's
\* exception handler, which leaves the request with a server error
logout(u, token) ==
    /\ UNCHANGED <<course_vars, live_vars, material_vars>>
    /\ IF token = NoToken
       THEN /\ resp' = Response("logout", u, token, 500, "Refresh token is required")
            /\ UNCHANGED blacklisted
       ELSE /\ blacklisted' = blacklist_refresh_token(token)
            /\ resp' = Response("logout", u, token, 200, "Logged out successfully")

(***************************************************************************)
(* The catalogue before any enrollment: a course a teacher created and     *)
(* possibly published, with the capacity the teacher chose.                *)
(***************************************************************************)
InitCourses ==
    /\ courses \in [Courses -> {[teacher |-> "t1", status |-> st,
                                 max_students |-> mx,
                                 current_students |-> 0, average_rating |-> 0,
                                 total_ratings |-> 0] :
                                    st \in STATUS_CHOICES, mx \in 0..MaxCapacity}]
    /\ enrollments = EmptyBag
    /\ ratings = EmptyBag
    /\ resp = Response("none", "none", "c0", 0, "")
    /\ pc = [w \in Workers |-> "idle"]
    /\ local = [w \in Workers |-> NoLocal]
    /\ rated = {}
    /\ floored = FALSE
    /\ blacklisted = {}

\* the live class and the material of the course, as teacher t1 created them
\* (LiveClassCreateSerializer and MaterialCreateSerializer set teacher to the
\* caller, status is 'scheduled' and the counters are 0 by default)
InitLiveClasses ==
    /\ live_classes \in [LiveClasses ->
                             {LiveClass("t1", "c1", mx, ap) :
                                 mx \in 1..MaxParticipants, ap \in BOOLEAN}]
    /\ participants = EmptyBag
    /\ messages = {}
    /\ listing = NoListing

InitMaterials ==
    /\ materials \in [Materials ->
                          {Material("t1", "c1", pub, dl) :
                              pub \in BOOLEAN, dl \in BOOLEAN}]
    /\ accesses = EmptyBag

\* one fixed choice of each, for the specifications of the courses app
DefaultLiveClasses ==
    /\ InitLiveClasses
    /\ \A l \in LiveClasses : /\ live_classes[l].max_participants = MaxParticipants
                              /\ ~live_classes[l].requires_approval

DefaultMaterials ==
    /\ InitMaterials
    /\ \A m \in Materials : ~materials[m].is_public /\ materials[m].is_downloadable

Init ==
    /\ InitCourses
    /\ DefaultLiveClasses
    /\ DefaultMaterials

Next ==
    \/ \E s \in Students, cid \in CourseIds : enroll_course(s, cid)
    \/ \E s \in Students, cid \in CourseIds : unenroll_course(s, cid)
    \/ \E u \in Users, cid \in CourseIds, st \in STATUS_CHOICES, mx \in 0..MaxCapacity :
           update_course(u, cid, st, mx)

Spec == Init /\ [][Next]_vars

(***************************************************************************)
(* Rating: a published course with MaxCapacity seats; students enroll,     *)
(* unenroll and rate.  Requests carry no rating, a rating in range (3, 5), *)
(* one just above the validators' range, or MaxRatingInput.                *)
(***************************************************************************)
RatingInputs == {3, 5, MaxValueValidator + 1, MaxRatingInput}
RatingData == {{}} \cup {{v} : v \in RatingInputs}

InitRate ==
    /\ Init
    /\ \A c \in Courses : courses[c].status = "published"
                          /\ courses[c].max_students = MaxCapacity

NextRate ==
    \/ \E s \in Students, cid \in CourseIds : enroll_course(s, cid)
    \/ \E s \in Students, cid \in CourseIds : unenroll_course(s, cid)
    \/ \E s \in Students, cid \in CourseIds, rt \in RatingData : rate_course(s, cid, rt)

SpecRate == InitRate /\ [][NextRate]_vars

(***************************************************************************)
(* courses/views.py: enroll_course statement by statement.  Each request   *)
(* is served by its own worker, with no transaction and no row lock        *)
(* around the handler, so the statements of different requests interleave. *)
(* A user has at most one request in flight.                               *)
(***************************************************************************)
\* lines 106-112: load the Course row into memory, test is_full on it
enroll_get_course(s, cid) ==
    /\ pc[s] = "idle"
    /\ UNCHANGED <<live_vars, material_vars, auth_vars>>
    /\ UNCHANGED <<courses, enrollments, ratings, rated, floored>>
    /\ IF ~get_published_course(cid)
       THEN /\ resp' = Response("enroll", s, cid, 404, "Course not found")
            /\ UNCHANGED <<pc, local>>
       ELSE IF is_full(courses[cid])
       THEN /\ resp' = Response("enroll", s, cid, 400, "Course is full")
            /\ UNCHANGED <<pc, local>>
       ELSE /\ resp' = Response("enroll", s, cid, 0, "pending")
            /\ local' = [local EXCEPT ![s] = [course_id |-> cid, course |-> courses[cid]]]
            /\ pc' = [pc EXCEPT ![s] = "enroll_exists"]

\* lines 115-116: the already-enrolled query
enroll_check_exists(s) ==
    /\ pc[s] = "enroll_exists"
    /\ UNCHANGED <<live_vars, material_vars, auth_vars>>
    /\ UNCHANGED <<courses, enrollments, ratings, rated, floored>>
    /\ IF active_enrollment_exists(enrollments, s, local[s].course_id)
       THEN /\ resp' = Response("enroll", s, local[s].course_id, 400, "Already enrolled")
            /\ local' = [local EXCEPT ![s] = NoLocal]
            /\ pc' = [pc EXCEPT ![s] = "idle"]
       ELSE /\ resp' = Response("enroll", s, local[s].course_id, 0, "pending")
            /\ UNCHANGED local
            /\ pc' = [pc EXCEPT ![s] = "enroll_create"]

\* line 119: INSERT the enrollment row
enroll_create(s) ==
    /\ pc[s] = "enroll_create"
    /\ UNCHANGED <<live_vars, material_vars, auth_vars>>
    /\ UNCHANGED <<courses, ratings, rated, floored>>
    /\ IF enrollment_unique_together(enrollments, s, local[s].course_id)
       THEN /\ resp' = Response("enroll", s, local[s].course_id, 500, "IntegrityError")
            /\ UNCHANGED enrollments
            /\ local' = [local EXCEPT ![s] = NoLocal]
            /\ pc' = [pc EXCEPT ![s] = "idle"]
       ELSE /\ enrollments' = enrollments (+)
                                SetToBag({CourseEnrollment(s, local[s].course_id, TRUE)})
            /\ resp' = Response("enroll", s, local[s].course_id, 0, "pending")
            /\ UNCHANGED local
            /\ pc' = [pc EXCEPT ![s] = "enroll_save"]

\* lines 122-123: increment the in-memory counter, UPDATE the whole row from memory
enroll_save(s) ==
    /\ pc[s] = "enroll_save"
    /\ UNCHANGED <<live_vars, material_vars, auth_vars>>
    /\ UNCHANGED <<enrollments, ratings, rated, floored>>
    /\ courses' = [courses EXCEPT ![local[s].course_id] =
                      [local[s].course EXCEPT !.current_students =
                           students_after_enroll(@)]]
    /\ resp' = Response("enroll", s, local[s].course_id, 201, "created")
    /\ local' = [local EXCEPT ![s] = NoLocal]
    /\ pc' = [pc EXCEPT ![s] = "idle"]

NextConc ==
    \/ \E s \in Students, cid \in CourseIds : enroll_get_course(s, cid)
    \/ \E s \in Students : enroll_check_exists(s)
    \/ \E s \in Students : enroll_create(s)
    \/ \E s \in Students : enroll_save(s)
    \/ \E s \in Students, cid \in CourseIds : unenroll_course(s, cid)

SpecConc == Init /\ [][NextConc]_vars

\* the same, with the teacher's course updates run to completion between them
NextConcUpdate ==
    \/ NextConc
    \/ \E u \in Teachers, cid \in Courses, st \in STATUS_CHOICES, mx \in 0..MaxCapacity :
           update_course(u, cid, st, mx)

SpecConcUpdate == Init /\ [][NextConcUpdate]_vars

(***************************************************************************)
(* courses/views.py: rate_course statement by statement, interleaved like  *)
(* enroll_course above.  local holds what the request has in memory: the   *)
(* Course object, the request data, and the rating rows it has read.       *)
(***************************************************************************)
\* lines 176-183: load the Course row, then the enrollment query
rate_get_course(s, cid, rt) ==
    /\ pc[s] = "idle"
    /\ UNCHANGED <<live_vars, material_vars, auth_vars>>
    /\ UNCHANGED <<courses, enrollments, ratings, rated, floored>>
    /\ IF ~get_any_course(cid)
       THEN /\ resp' = Response("rate", s, cid, 404, "Course not found")
            /\ UNCHANGED <<pc, local>>
       ELSE IF ~active_enrollment_exists(enrollments, s, cid)
       THEN /\ resp' = Response("rate", s, cid, 400, "Must be enrolled to rate")
            /\ UNCHANGED <<pc, local>>
       ELSE /\ resp' = Response("rate", s, cid, 0, "pending")
            /\ local' = [local EXCEPT ![s] =
                            [course_id |-> cid, course |-> courses[cid], data |-> rt,
                             created |-> FALSE, sum |-> 0, len |-> 0]]
            /\ pc' = [pc EXCEPT ![s] = "rate_get_or_create"]

\* lines 186-197: get_or_create the rating row and, if it was there, update it
rate_get_or_create(s) ==
    /\ pc[s] = "rate_get_or_create"
    /\ UNCHANGED <<live_vars, material_vars, auth_vars>>
    /\ UNCHANGED <<courses, enrollments, rated, floored>>
    /\ LET cid == local[s].course_id
           rt == local[s].data
           old == {r \in BagToSet(ratings) : r.student = s /\ r.course = cid}
           created == (old = {})
       IN  IF created /\ rt = {}
           THEN /\ resp' = Response("rate", s, cid, 500, "IntegrityError")
                /\ UNCHANGED ratings
                /\ local' = [local EXCEPT ![s] = NoLocal]
                /\ pc' = [pc EXCEPT ![s] = "idle"]
           ELSE /\ ratings' =
                     IF created
                     THEN ratings (+) SetToBag({CourseRating(s, cid, data_get(rt, 0))})
                     ELSE LET o == CHOOSE r \in old : TRUE
                          IN  (ratings (-) SetToBag({o})) (+)
                              SetToBag({CourseRating(s, cid, data_get(rt, o.rating))})
                /\ resp' = Response("rate", s, cid, 0, "pending")
                /\ local' = [local EXCEPT ![s].created = created]
                /\ pc' = [pc EXCEPT ![s] = "rate_read_ratings"]

\* lines 200-201: course.ratings.all() is evaluated by `if ratings`
rate_read_ratings(s) ==
    /\ pc[s] = "rate_read_ratings"
    /\ UNCHANGED <<live_vars, material_vars, auth_vars>>
    /\ UNCHANGED <<courses, enrollments, ratings, floored>>
    /\ LET cid == local[s].course_id
           n == len_ratings(ratings, cid)
       IN  IF n = 0
           THEN /\ rated' = rated \cup {<<s, cid>>}
                /\ resp' = Response("rate", s, cid,
                               IF local[s].created THEN 201 ELSE 200, "rated")
                /\ local' = [local EXCEPT ![s] = NoLocal]
                /\ pc' = [pc EXCEPT ![s] = "idle"]
           ELSE /\ UNCHANGED rated
                /\ resp' = Response("rate", s, cid, 0, "pending")
                /\ local' = [local EXCEPT ![s].sum = sum_ratings(ratings, cid),
                                          ![s].len = n]
                /\ pc' = [pc EXCEPT ![s] = "rate_save"]

\* lines 202-204: set the aggregates on the Course object in memory and
\* UPDATE the whole row from it
rate_save(s) ==
    /\ pc[s] = "rate_save"
    /\ UNCHANGED <<live_vars, material_vars, auth_vars>>
    /\ UNCHANGED <<enrollments, ratings, floored>>
    /\ LET cid == local[s].course_id
           avg == average_rating_to_db(local[s].sum, local[s].len)
       IN  /\ IF avg = InvalidOperation
              THEN /\ UNCHANGED <<courses, rated>>
                   /\ resp' = Response("rate", s, cid, 500, "InvalidOperation")
              ELSE /\ courses' = [courses EXCEPT ![cid] =
                                     [local[s].course EXCEPT
                                         !.average_rating = avg,
                                         !.total_ratings = local[s].len]]
                   /\ rated' = rated \cup {<<s, cid>>}
                   /\ resp' = Response("rate", s, cid,
                                  IF local[s].created THEN 201 ELSE 200, "rated")
           /\ local' = [local EXCEPT ![s] = NoLocal]
           /\ pc' = [pc EXCEPT ![s] = "idle"]

\* the students who enroll in the course of the live class; the third
\* student stays outside it
Attendees == {"s1", "s2"}

\* the request data that pass the validators of CourseRating.rating
ValidRatingData ==
    {{v} : v \in {w \in RatingInputs : /\ w >= MinValueValidator
                                       /\ w <= MaxValueValidator}}

\* two enrolled students rate while the other's request is in flight
NextConcRate ==
    \/ \E s \in Attendees, cid \in Courses : enroll_course(s, cid)
    \/ \E s \in Attendees, cid \in CourseIds, rt \in ValidRatingData :
           rate_get_course(s, cid, rt)
    \/ \E s \in Attendees : rate_get_or_create(s)
    \/ \E s \in Attendees : rate_read_ratings(s)
    \/ \E s \in Attendees : rate_save(s)

SpecConcRate == InitRate /\ [][NextConcRate]_vars

(***************************************************************************)
(* The specifications of the live classes and of the materials.  The       *)
(* course is published with MaxCapacity seats; students enroll and         *)
(* unenroll, each request run to completion.                               *)
(***************************************************************************)
InitPublished ==
    /\ InitCourses
    /\ \A c \in Courses : courses[c].status = "published"
                          /\ courses[c].max_students = MaxCapacity

InitLive ==
    /\ InitPublished
    /\ InitLiveClasses
    /\ DefaultMaterials

\* the status of a live class: start, end and the teacher's PUT/PATCH
NextLive ==
    \/ \E u \in Users, lcid \in LiveClassIds : start_live_class(u, lcid)
    \/ \E u \in Users, lcid \in LiveClassIds : end_live_class(u, lcid)
    \/ \E u \in Users, lcid \in LiveClassIds, st \in LIVE_STATUS_CHOICES,
          mx \in 1..MaxParticipants : update_live_class(u, lcid, st, mx)

SpecLive == InitLive /\ [][NextLive]_vars


\* the roster: join, leave and approve_participant
NextRoster ==
    \/ \E s \in Attendees, cid \in Courses : enroll_course(s, cid)
    \/ \E s \in Attendees, cid \in Courses : unenroll_course(s, cid)
    \/ \E u \in Students, lcid \in LiveClassIds : join_live_class(u, lcid)
    \/ \E u \in Students, lcid \in LiveClasses : leave_live_class(u, lcid)
    \/ \E u \in Users, lcid \in LiveClasses,
          p \in BagToSet(participants) \cup {NoParticipant} :
           approve_participant(u, lcid, p)

SpecRoster == InitLive /\ [][NextRoster]_vars

\* the roster with the change form of the admin site, which marks attendance
NextRosterAdmin ==
    \/ \E s \in Attendees, cid \in Courses : enroll_course(s, cid)
    \/ \E u \in Students, lcid \in LiveClassIds : join_live_class(u, lcid)
    \/ \E u \in Students, lcid \in LiveClasses : leave_live_class(u, lcid)
    \/ \E u \in Users, lcid \in LiveClasses,
          p \in BagToSet(participants) \cup {NoParticipant} :
           approve_participant(u, lcid, p)
    \/ \E p \in BagToSet(participants), st \in {"attended", "no_show"} :
           admin_change_participant(p, st)

SpecRosterAdmin == InitLive /\ [][NextRosterAdmin]_vars

(***************************************************************************)
(* live_classes/views.py: join_live_class statement by statement,          *)
(* interleaved like enroll_course.  local holds the LiveClass object the   *)
(* request loaded.                                                         *)
(***************************************************************************)
\* lines 145-160: load the LiveClass row, the enrollment query, is_full on
\* the loaded object
join_get_live_class(u, lcid) ==
    /\ pc[u] = "idle"
    /\ UNCHANGED <<live_vars, material_vars, auth_vars>>
    /\ UNCHANGED <<courses, enrollments, ratings, rated, floored>>
    /\ IF ~get_live_class(lcid)
       THEN /\ resp' = Response("join", u, lcid, 404, "Live class not found")
            /\ UNCHANGED <<pc, local>>
       ELSE IF ~active_enrollment_exists(enrollments, u, live_classes[lcid].course)
       THEN /\ resp' = Response("join", u, lcid, 403, "Must be enrolled to join")
            /\ UNCHANGED <<pc, local>>
       ELSE IF live_class_is_full(live_classes[lcid])
       THEN /\ resp' = Response("join", u, lcid, 400, "Live class is full")
            /\ UNCHANGED <<pc, local>>
       ELSE /\ resp' = Response("join", u, lcid, 0, "pending")
            /\ local' = [local EXCEPT ![u] =
                            [live_class_id |-> lcid, live_class |-> live_classes[lcid],
                             created |-> FALSE]]
            /\ pc' = [pc EXCEPT ![u] = "join_get_or_create"]

\* lines 163-171: get_or_create the participant row, registered again if it
\* was cancelled
join_get_or_create(u) ==
    /\ pc[u] = "join_get_or_create"
    /\ UNCHANGED <<material_vars, auth_vars>>
    /\ UNCHANGED <<courses, enrollments, ratings, rated, floored>>
    /\ UNCHANGED <<live_classes, messages, listing>>
    /\ LET lcid == local[u].live_class_id
       IN  IF participation_found(participants, u, lcid)
           THEN IF ~one_participation(participants, u, lcid)
                THEN /\ resp' = Response("join", u, lcid, 500, "MultipleObjectsReturned")
                     /\ UNCHANGED participants
                     /\ local' = [local EXCEPT ![u] = NoLocal]
                     /\ pc' = [pc EXCEPT ![u] = "idle"]
                ELSE LET old == CHOOSE p \in participations(participants, u, lcid) : TRUE
                         new == [old EXCEPT !.status = status_after_join(@)]
                     IN  /\ participants' = save_participation(participants, old, new)
                         /\ resp' = Response("join", u, lcid, 0, "pending")
                         /\ UNCHANGED local
                         /\ pc' = [pc EXCEPT ![u] = "join_save"]
           ELSE IF participant_unique_together(participants, u, lcid)
           THEN /\ resp' = Response("join", u, lcid, 500, "IntegrityError")
                /\ UNCHANGED participants
                /\ local' = [local EXCEPT ![u] = NoLocal]
                /\ pc' = [pc EXCEPT ![u] = "idle"]
           ELSE /\ participants' = participants (+)
                                     SetToBag({LiveClassParticipant(u, lcid, "registered")})
                /\ resp' = Response("join", u, lcid, 0, "pending")
                /\ local' = [local EXCEPT ![u].created = TRUE]
                /\ pc' = [pc EXCEPT ![u] = "join_save"]

\* lines 174-175: count the rows of the counted statuses, UPDATE the whole
\* row from the object in memory
join_save(u) ==
    /\ pc[u] = "join_save"
    /\ UNCHANGED <<material_vars, auth_vars>>
    /\ UNCHANGED <<courses, enrollments, ratings, rated, floored>>
    /\ UNCHANGED <<participants, messages, listing>>
    /\ LET lcid == local[u].live_class_id
       IN  /\ live_classes' = [live_classes EXCEPT ![lcid] =
                                  [local[u].live_class EXCEPT !.current_participants =
                                       count_participants(participants, lcid)]]
           /\ resp' = Response("join", u, lcid,
                          IF local[u].created THEN 201 ELSE 200, "joined")
    /\ local' = [local EXCEPT ![u] = NoLocal]
    /\ pc' = [pc EXCEPT ![u] = "idle"]

\* the enrolled students join and leave while other requests are in flight
NextConcJoin ==
    \/ \E s \in Attendees, cid \in Courses : enroll_course(s, cid)
    \/ \E u \in Students, lcid \in LiveClassIds : join_get_live_class(u, lcid)
    \/ \E u \in Students : join_get_or_create(u)
    \/ \E u \in Students : join_save(u)
    \/ \E u \in Students, lcid \in LiveClasses : leave_live_class(u, lcid)

SpecConcJoin == InitLive /\ [][NextConcJoin]_vars

(***************************************************************************)
(* live_classes/views.py: start_live_class statement by statement          *)
(***************************************************************************)
\* lines 99-105: load the caller's LiveClass row, test its status
start_get_live_class(w, lcid) ==
    /\ pc[w] = "idle"
    /\ UNCHANGED <<live_vars, material_vars, auth_vars>>
    /\ UNCHANGED <<courses, enrollments, ratings, rated, floored>>
    /\ IF ~IsTeacher(caller(w))
       THEN /\ resp' = Response("start", caller(w), lcid, 403, "Forbidden")
            /\ UNCHANGED <<pc, local>>
       ELSE IF ~get_own_live_class(lcid, caller(w))
       THEN /\ resp' = Response("start", caller(w), lcid, 404, "Live class not found")
            /\ UNCHANGED <<pc, local>>
       ELSE IF ~is_scheduled(live_classes[lcid])
       THEN /\ resp' = Response("start", caller(w), lcid, 400,
                                "Live class is not scheduled")
            /\ UNCHANGED <<pc, local>>
       ELSE /\ resp' = Response("start", caller(w), lcid, 0, "pending")
            /\ local' = [local EXCEPT ![w] =
                            [live_class_id |-> lcid, live_class |-> live_classes[lcid]]]
            /\ pc' = [pc EXCEPT ![w] = "start_save"]

\* lines 107-109: set status and started_at on the object in memory and
\* UPDATE the whole row from it
start_save(w) ==
    /\ pc[w] = "start_save"
    /\ UNCHANGED <<material_vars, auth_vars>>
    /\ UNCHANGED <<courses, enrollments, ratings, rated, floored>>
    /\ UNCHANGED <<participants, messages, listing>>
    /\ live_classes' = [live_classes EXCEPT ![local[w].live_class_id] =
                           [local[w].live_class EXCEPT !.status = "live",
                                                       !.started_at = timezone_now]]
    /\ resp' = Response("start", caller(w), local[w].live_class_id, 200, "started")
    /\ local' = [local EXCEPT ![w] = NoLocal]
    /\ pc' = [pc EXCEPT ![w] = "idle"]

\* start requests in flight together, and end requests
NextConcStart ==
    \/ \E w \in Workers, lcid \in LiveClassIds : start_get_live_class(w, lcid)
    \/ \E w \in Workers : start_save(w)
    \/ \E u \in Users, lcid \in LiveClassIds : end_live_class(u, lcid)

SpecConcStart == InitLive /\ [][NextConcStart]_vars

\* the chat of the live class
NextChat ==
    \/ \E u \in Users, lcid \in LiveClassIds, private \in BOOLEAN,
          parent \in 0..MaxMessages : post_message(u, lcid, private, parent)
    \/ \E u \in Users, lcid \in LiveClassIds : list_messages(u, lcid)

SpecChat == InitLive /\ [][NextChat]_vars

InitMaterial ==
    /\ InitPublished
    /\ DefaultLiveClasses
    /\ InitMaterials

NextMaterial ==
    \/ \E s \in Attendees, cid \in Courses : enroll_course(s, cid)
    \/ \E s \in Attendees, cid \in Courses : unenroll_course(s, cid)
    \/ \E u \in Users, mid \in MaterialIds : download_material(u, mid)
    \/ \E u \in Users, mid \in MaterialIds : view_material(u, mid)

SpecMaterial == InitMaterial /\ [][NextMaterial]_vars

\* every request that names a material
NextMaterialDetail ==
    \/ \E u \in Attendees, cid \in Courses : enroll_course(u, cid)
    \/ \E u \in Users, mid \in MaterialIds : download_material(u, mid)
    \/ \E u \in Users, mid \in MaterialIds : view_material(u, mid)
    \/ \E u \in Users, mid \in MaterialIds : material_stats(u, mid)
    \/ \E u \in Users, mid \in MaterialIds, public \in BOOLEAN, downloadable \in BOOLEAN :
           update_material(u, mid, public, downloadable)
    \/ \E u \in Users, mid \in MaterialIds : delete_material(u, mid)

SpecMaterialDetail == InitMaterial /\ [][NextMaterialDetail]_vars

\* the catalogue: the list, enrollment, and every write on a course's
\* detail URL
NextCatalog ==
    \/ \E u \in Users : list_courses(u)
    \/ \E s \in Attendees, cid \in Courses : enroll_course(s, cid)
    \/ \E u \in Users, cid \in CourseIds, st \in STATUS_CHOICES, mx \in 0..MaxCapacity :
           update_course(u, cid, st, mx)
    \/ \E u \in Users, cid \in CourseIds : delete_course(u, cid)

SpecCatalog == Init /\ [][NextCatalog]_vars

\* auth: logout by any authenticated caller with any token
NextAuth == \E u \in Users, token \in TokenInputs : logout(u, token)

SpecAuth == Init /\ [][NextAuth]_vars

(***************************************************************************)
(* Properties of enrollment, checked under Spec.                           *)
(***************************************************************************)
EnrollStep(s, cid) ==
    resp'.op = "enroll" /\ resp'.user = s /\ resp'.course = cid /\ resp'.code # 0

UnenrollStep(s, cid) ==
    resp'.op = "unenroll" /\ resp'.user = s /\ resp'.course = cid /\ resp'.code # 0

\* C1: after any sequence of enroll and unenroll requests, each run to
\* completion, current_students of every course equals the number of its
\* CourseEnrollment rows with is_active = true.
CounterMatchesActiveRows ==
    \A c \in Courses : courses[c].current_students = ActiveCount(enrollments, c)

\* an unenroll has succeeded while another student is still enrolled
CounterMatchesWitness ==
    /\ resp.op = "unenroll" /\ resp.code = 200
    /\ \E c \in Courses : courses[c].current_students >= 1
    /\ \E r \in BagToSet(enrollments) : ~r.is_active

\* C2: enroll on a published course with current_students >= max_students
\* answers 400 'Course is full' and writes nothing.
FullCourseRejectsEnroll ==
    [][\A s \in Students, cid \in Courses :
          (/\ EnrollStep(s, cid)
           /\ courses[cid].status = "published"
           /\ courses[cid].current_students >= courses[cid].max_students)
          => (/\ resp'.code = 400
              /\ resp'.detail = "Course is full"
              /\ UNCHANGED <<courses, enrollments>>)]_vars

\* a full course (with a student in it) has turned an enroll away
FullCourseWitness ==
    /\ resp.op = "enroll" /\ resp.code = 400 /\ resp.detail = "Course is full"
    /\ resp.course \in Courses
    /\ courses[resp.course].current_students >= 1
    /\ courses[resp.course].current_students = courses[resp.course].max_students

\* C4: an enroll by a student with no active enrollment in a published,
\* non-full course succeeds (also after that student unenrolled: the row is
\* reactivated), leaves exactly one row for the pair, active, and adds
\* exactly 1 to current_students.
EnrollCreatesOrReactivates ==
    [][\A s \in Students, cid \in Courses :
          (/\ EnrollStep(s, cid)
           /\ courses[cid].status = "published"
           /\ courses[cid].current_students < courses[cid].max_students
           /\ ~BagIn(CourseEnrollment(s, cid, TRUE), enrollments))
          => (/\ resp'.code = 201
              /\ RowCount(enrollments', s, cid) = 1
              /\ BagIn(CourseEnrollment(s, cid, TRUE), enrollments')
              /\ courses'[cid].current_students = courses[cid].current_students + 1)]_vars

\* C5: enroll answers 404 for an absent or unpublished course and 400 for a
\* caller already actively enrolled, writing nothing in both cases; no
\* (student, course) pair ever has more than one enrollment row.
EnrollRejectsAndKeepsPairsUnique ==
    /\ [][\A s \in Students, cid \in CourseIds :
            EnrollStep(s, cid) =>
              /\ (cid \notin Courses \/ courses[cid].status # "published")
                    => (resp'.code = 404 /\ UNCHANGED <<courses, enrollments>>)
              /\ (/\ cid \in Courses
                  /\ courses[cid].status = "published"
                  /\ BagIn(CourseEnrollment(s, cid, TRUE), enrollments))
                    => (resp'.code = 400 /\ UNCHANGED <<courses, enrollments>>)]_vars
    /\ [](\A s \in Students, cid \in Courses : RowCount(enrollments, s, cid) <= 1)

\* an enroll by a student who was already actively enrolled was turned away
\* while another student's enrollment sits deactivated
EnrollRejectsWitness ==
    /\ resp.op = "enroll" /\ resp.code = 400 /\ resp.detail = "Already enrolled"
    /\ \E r \in BagToSet(enrollments) : ~r.is_active

(***************************************************************************)
(* Properties of rating, checked under SpecRate.                           *)
(***************************************************************************)
RateStep(s, cid) ==
    resp'.op = "rate" /\ resp'.user = s /\ resp'.course = cid /\ resp'.code # 0

RatingsOf(rows, cid) == {r \in BagToSet(rows) : r.course = cid}

RatingCount(rows, S) ==
    LET f[T \in SUBSET S] ==
            IF T = {} THEN 0
            ELSE LET r == CHOOSE x \in T : TRUE
                 IN  CopiesIn(r, rows) + f[T \ {r}]
    IN  f[S]

RatingSum(rows, S) ==
    LET f[T \in SUBSET S] ==
            IF T = {} THEN 0
            ELSE LET r == CHOOSE x \in T : TRUE
                 IN  r.rating * CopiesIn(r, rows) + f[T \ {r}]
    IN  f[S]

PairRatings(rows, s, cid) == {r \in RatingsOf(rows, cid) : r.student = s}

Abs(x) == IF x >= 0 THEN x ELSE -x

\* C7: there is at most one CourseRating row per (student, course); the
\* first successful rate of a pair creates the row and answers 201, every
\* later successful rate of the pair updates that row and answers 200.
RateUpsertsOneRow ==
    /\ [](\A s \in Students, cid \in Courses :
             RatingCount(ratings, PairRatings(ratings, s, cid)) <= 1)
    /\ [][\A s \in Students, cid \in Courses :
            (RateStep(s, cid) /\ resp'.code \in {200, 201}) =>
               IF <<s, cid>> \notin rated
               THEN /\ resp'.code = 201
                    /\ PairRatings(ratings, s, cid) = {}
                    /\ RatingCount(ratings', PairRatings(ratings', s, cid)) = 1
               ELSE /\ resp'.code = 200
                    /\ RatingCount(ratings, PairRatings(ratings, s, cid)) = 1
                    /\ RatingCount(ratings', PairRatings(ratings', s, cid)) = 1]_vars

\* C8 as stated: after a successful rate on course C, total_ratings is the
\* number of C's rating rows and average_rating is exactly their mean.
AggregatesEqualExactMean ==
    (resp.op = "rate" /\ resp.code \in {200, 201}) =>
        LET c == resp.course
            S == RatingsOf(ratings, c)
        IN  /\ courses[c].total_ratings = RatingCount(ratings, S)
            /\ courses[c].average_rating * RatingCount(ratings, S)
                  = Pow10(decimal_places) * RatingSum(ratings, S)

\* C8 as the code has it: after a successful rate on course C,
\* total_ratings is the number of C's rating rows and average_rating is
\* their mean rounded to decimal_places places (within half a unit of the
\* last place).
AggregatesEqualRoundedMean ==
    (resp.op = "rate" /\ resp.code \in {200, 201}) =>
        LET c == resp.course
            S == RatingsOf(ratings, c)
            n == RatingCount(ratings, S)
        IN  /\ courses[c].total_ratings = n
            /\ n > 0
            /\ 2 * Abs(Pow10(decimal_places) * RatingSum(ratings, S)
                          - courses[c].average_rating * n) <= n

\* a successful rate left three ratings whose mean has no two-place decimal
AggregatesWitness ==
    /\ resp.op = "rate" /\ resp.code \in {200, 201}
    /\ RatingCount(ratings, RatingsOf(ratings, resp.course)) = 3
    /\ RatingSum(ratings, RatingsOf(ratings, resp.course)) % 3 = 2

\* C9: rate answers 404 for an absent course and 400 for a caller with no
\* active enrollment in the course; in both cases no rating row and no
\* aggregate of the course changes.
RateRejectsWithoutWrite ==
    [][\A s \in Students, cid \in CourseIds :
          RateStep(s, cid) =>
            /\ (cid \notin Courses)
                  => (resp'.code = 404 /\ UNCHANGED <<courses, ratings>>)
            /\ (cid \in Courses /\ ~BagIn(CourseEnrollment(s, cid, TRUE), enrollments))
                  => (resp'.code = 400 /\ UNCHANGED <<courses, ratings>>)]_vars

\* a student who unenrolled after rating was refused a new rating
RateRejectsWitness ==
    /\ resp.op = "rate" /\ resp.code = 400
    /\ BagIn(CourseEnrollment(resp.user, resp.course, FALSE), enrollments)
    /\ PairRatings(ratings, resp.user, resp.course) # {}

\* C10: every CourseRating row holds a rating within the validators' range
\* (a request with a rating outside it is rejected and writes nothing).
RatingsWithinValidators ==
    \A r \in BagToSet(ratings) : r.rating \in MinValueValidator..MaxValueValidator

(***************************************************************************)
(* Properties of interleaved requests: enroll statement by statement,      *)
(* unenroll (SpecConc) and course updates (SpecConcUpdate) run to          *)
(* completion between the statements.                                      *)
(***************************************************************************)
\* C3: 0 <= current_students <= max_students in every reachable state, also
\* when the reads and writes of enroll requests of different students
\* interleave.
CapacityInvariant ==
    \A c \in Courses :
        /\ 0 <= courses[c].current_students
        /\ courses[c].current_students <= courses[c].max_students

\* C6: unenroll answers 404 and changes nothing when the caller has no
\* active enrollment in the course; otherwise it flips that row to
\* is_active = false, keeping the row, and sets current_students to
\* max(0, current_students - 1); current_students is never negative.
UnenrollDeactivatesAndFloors ==
    /\ [](\A c \in Courses : courses[c].current_students >= 0)
    /\ [][\A s \in Students, cid \in CourseIds :
            UnenrollStep(s, cid) =>
              IF ~BagIn(CourseEnrollment(s, cid, TRUE), enrollments)
              THEN resp'.code = 404 /\ UNCHANGED <<courses, enrollments>>
              ELSE /\ resp'.code = 200
                   /\ ~BagIn(CourseEnrollment(s, cid, TRUE), enrollments')
                   /\ BagIn(CourseEnrollment(s, cid, FALSE), enrollments')
                   /\ BagCardinality(enrollments') = BagCardinality(enrollments)
                   /\ \A r \in BagToSet(enrollments) :
                          r # CourseEnrollment(s, cid, TRUE) => BagIn(r, enrollments')
                   /\ courses'[cid].current_students =
                          (IF courses[cid].current_students >= 1
                           THEN courses[cid].current_students - 1 ELSE 0)
                   /\ courses'[cid].max_students = courses[cid].max_students
                   /\ courses'[cid].status = courses[cid].status]_vars

\* an unenroll succeeded on a counter that was already 0: the floor applied
UnenrollFloorWitness ==
    /\ resp.op = "unenroll" /\ resp.code = 200
    /\ floored
    /\ courses[resp.course].current_students = 0

(***************************************************************************)
(* Properties of the status of a live class, checked under SpecLive.       *)
(***************************************************************************)
StartStep(u, lcid) ==
    resp'.op = "start" /\ resp'.user = u /\ resp'.course = lcid

EndStep(u, lcid) ==
    resp'.op = "end" /\ resp'.user = u /\ resp'.course = lcid

OwnsLiveClass(u, lcid) ==
    lcid \in LiveClasses /\ live_classes[lcid].teacher = u

\* what a successful start writes: status 'live', started_at a clock reading,
\* every other field as it was
StartWritten(lcid) ==
    /\ live_classes'[lcid].status = "live"
    /\ live_classes'[lcid].started_at \in Timestamps
    /\ live_classes' = [live_classes EXCEPT
                           ![lcid].status = "live",
                           ![lcid].started_at = live_classes'[lcid].started_at]

\* C11 as stated: start succeeds only for the owning teacher on a class whose
\* status is 'scheduled', and then sets status 'live' and started_at; a start
\* by any other user returns 404 and a start on a class that is not scheduled
\* returns 400, both leaving the row unchanged.
StartByOthersNotFound ==
    [][\A u \in Users, lcid \in LiveClassIds :
          StartStep(u, lcid) =>
              IF ~OwnsLiveClass(u, lcid)
              THEN resp'.code = 404 /\ UNCHANGED live_classes
              ELSE IF live_classes[lcid].status # "scheduled"
              THEN resp'.code = 400 /\ UNCHANGED live_classes
              ELSE resp'.code = 200 /\ StartWritten(lcid)]_vars

\* C11, amended: as above, except that a start by a caller who is not a
\* teacher returns 403, and only a start by a teacher who does not own the
\* class (or of a class that does not exist) returns 404.
StartOnlyOwnerScheduled ==
    [][\A u \in Users, lcid \in LiveClassIds :
          StartStep(u, lcid) =>
              IF u \notin Teachers
              THEN resp'.code = 403 /\ UNCHANGED live_classes
              ELSE IF ~OwnsLiveClass(u, lcid)
              THEN resp'.code = 404 /\ UNCHANGED live_classes
              ELSE IF live_classes[lcid].status # "scheduled"
              THEN resp'.code = 400 /\ UNCHANGED live_classes
              ELSE resp'.code = 200 /\ StartWritten(lcid)]_vars

\* a second start of a class that a start made live is answered 400
StartWitness ==
    /\ resp.op = "start" /\ resp.code = 400
    /\ \E l \in LiveClasses :
           /\ resp.course = l /\ resp.user = live_classes[l].teacher
           /\ live_classes[l].status = "live"
           /\ live_classes[l].started_at \in Timestamps

\* C12: end succeeds only for the owning teacher on a class whose status is
\* 'live', and then sets status 'ended' and ended_at; in every other case it
\* fails and leaves the row (status and ended_at included) unchanged.
EndOnlyOwnerLive ==
    [][\A u \in Users, lcid \in LiveClassIds :
          EndStep(u, lcid) =>
              IF OwnsLiveClass(u, lcid) /\ live_classes[lcid].status = "live"
              THEN /\ resp'.code = 200
                   /\ live_classes'[lcid].status = "ended"
                   /\ live_classes'[lcid].ended_at \in Timestamps
                   /\ live_classes' = [live_classes EXCEPT
                          ![lcid].status = "ended",
                          ![lcid].ended_at = live_classes'[lcid].ended_at]
              ELSE resp'.code \in {400, 403, 404} /\ UNCHANGED live_classes]_vars

\* an end of a started class succeeded
EndWitness ==
    /\ resp.op = "end" /\ resp.code = 200
    /\ \E l \in LiveClasses :
           /\ resp.course = l
           /\ live_classes[l].status = "ended"
           /\ live_classes[l].started_at \in Timestamps
           /\ live_classes[l].ended_at \in Timestamps

\* C13: over start, end and the PUT/PATCH of the detail endpoint, the status
\* of a live class changes only along scheduled -> live, live -> ended or
\* scheduled -> cancelled.
StatusTransitionsForward ==
    [][\A l \in LiveClasses :
          live_classes'[l].status # live_classes[l].status =>
              <<live_classes[l].status, live_classes'[l].status>> \in
                  {<<"scheduled", "live">>, <<"live", "ended">>,
                   <<"scheduled", "cancelled">>}]_vars

(***************************************************************************)
(* Properties of the roster, checked under SpecRoster and SpecRosterAdmin. *)
(***************************************************************************)
JoinStep(u, lcid) ==
    resp'.op = "join" /\ resp'.user = u /\ resp'.course = lcid

ApproveStep(u, lcid) ==
    resp'.op = "approve" /\ resp'.user = u /\ resp'.course = lcid

\* the number of counted rows of a live class
LiveCount(rows, lcid) ==
    LET S == {p \in BagToSet(rows) :
                 p.live_class = lcid /\ p.status \in {"registered", "approved", "attended"}}
        f[T \in SUBSET S] ==
            IF T = {} THEN 0
            ELSE LET p == CHOOSE x \in T : TRUE
                 IN  CopiesIn(p, rows) + f[T \ {p}]
    IN  f[S]

\* C14: join answers 404 when the live class does not exist, 403 unless the
\* caller holds an active enrollment in the class's course, 400 when
\* current_participants >= max_participants; each of these leaves the
\* participant rows and the LiveClass row (current_participants) unchanged.
JoinRejectsWithoutWrite ==
    [][\A u \in Users, lcid \in LiveClassIds :
          JoinStep(u, lcid) =>
              IF lcid \notin LiveClasses
              THEN resp'.code = 404 /\ UNCHANGED <<participants, live_classes>>
              ELSE IF ~BagIn(CourseEnrollment(u, live_classes[lcid].course, TRUE),
                             enrollments)
              THEN resp'.code = 403 /\ UNCHANGED <<participants, live_classes>>
              ELSE IF live_classes[lcid].current_participants
                          >= live_classes[lcid].max_participants
              THEN resp'.code = 400 /\ UNCHANGED <<participants, live_classes>>
              ELSE resp'.code \in {200, 201}]_vars

\* an enrolled student is turned away from a class that joins have filled
JoinFullWitness ==
    /\ resp.op = "join" /\ resp.code = 400
    /\ \E l \in LiveClasses :
           /\ resp.course = l
           /\ BagIn(CourseEnrollment(resp.user, live_classes[l].course, TRUE), enrollments)
           /\ live_classes[l].current_participants = live_classes[l].max_participants
           /\ LiveCount(participants, l) = live_classes[l].max_participants

\* C15: there is at most one LiveClassParticipant row per (student, live
\* class); a successful join of a student whose row is 'cancelled' sets that
\* row to 'registered' and adds no row, a successful join of a student whose
\* row has any other status leaves the rows as they are, and a successful
\* join of a student without a row adds one 'registered' row.
JoinKeepsOneRowPerPair ==
    [][/\ \A p \in BagToSet(participants') :
             /\ CopiesIn(p, participants') = 1
             /\ \A q \in BagToSet(participants') :
                    (q.student = p.student /\ q.live_class = p.live_class) => q = p
       /\ \A u \in Users, lcid \in LiveClasses :
             (JoinStep(u, lcid) /\ resp'.code \in {200, 201}) =>
                 LET old == {p \in BagToSet(participants) :
                                p.student = u /\ p.live_class = lcid}
                 IN  IF old = {}
                     THEN participants' = participants (+)
                              SetToBag({LiveClassParticipant(u, lcid, "registered")})
                     ELSE \E p \in old :
                              IF p.status = "cancelled"
                              THEN participants' = (participants (-) SetToBag({p})) (+)
                                       SetToBag({[p EXCEPT !.status = "registered"]})
                              ELSE UNCHANGED participants]_vars

\* a student whose row was approved left and joined again: the row is
\* 'registered' and still names its approver
RejoinWitness ==
    /\ resp.op = "join" /\ resp.code = 200
    /\ \E p \in BagToSet(participants) :
           /\ p.student = resp.user /\ p.live_class = resp.course
           /\ p.status = "registered" /\ p.approved_by \in Teachers
    /\ \E p \in BagToSet(participants) : p.status = "attended"

\* C16: in every state reachable by join, leave and approve_participant
\* requests, current_participants of a live class equals the number of its
\* participant rows whose status is registered, approved or attended.
CounterMatchesLiveCount ==
    \A l \in LiveClasses :
        live_classes[l].current_participants = LiveCount(participants, l)

\* C17: approve_participant succeeds only for the teacher who owns the live
\* class, any other caller gets 403 or 404 and the rows are unchanged; called
\* by the owner on a row of the class it succeeds whatever the row's status
\* and the class's requires_approval, and sets status 'approved',
\* approved_by = caller and approved_at.
ApproveOnlyOwnerAnyStatus ==
    [][\A u \in Users, lcid \in LiveClassIds :
          ApproveStep(u, lcid) =>
              LET named == {p \in BagToSet(participants) :
                               p.live_class = lcid /\ p.student = resp'.detail}
              IN  IF OwnsLiveClass(u, lcid) /\ named # {}
                  THEN /\ resp'.code = 200
                       /\ \E p \in named, t \in Timestamps :
                              participants' = (participants (-) SetToBag({p})) (+)
                                  SetToBag({[p EXCEPT !.status = "approved",
                                                      !.approved_by = u,
                                                      !.approved_at = t]})
                  ELSE resp'.code \in {403, 404} /\ UNCHANGED participants]_vars

\* the owner approved a row that was not counted (cancelled or no_show), in a
\* class that does not require approval: the counter is behind the rows
ApproveUncountedWitness ==
    /\ resp.op = "approve" /\ resp.code = 200
    /\ \E l \in LiveClasses :
           /\ resp.course = l /\ resp.user = live_classes[l].teacher
           /\ ~live_classes[l].requires_approval
           /\ live_classes[l].current_participants < LiveCount(participants, l)
    /\ \E p \in BagToSet(participants) : p.status = "no_show"

(***************************************************************************)
(* Properties of the chat, checked under SpecChat.                         *)
(***************************************************************************)
\* C18: the listing returned to the owning teacher has every message of the
\* class as an entry, and the listing returned to any other caller U shows no
\* message with is_private = true whose sender is not U, neither as an entry
\* nor among the replies nested in an entry.
ListingHidesPrivateOfOthers ==
    listing # NoListing =>
        IF OwnsLiveClass(listing.user, listing.live_class)
        THEN {e.message : e \in listing.entries}
                 = {m \in messages : m.live_class = listing.live_class}
        ELSE \A e \in listing.entries :
                 \A m \in {e.message} \cup e.replies :
                     m.is_private => m.sender = listing.user

(***************************************************************************)
(* Properties of the materials, checked under SpecMaterial.                *)
(***************************************************************************)
DownloadStep(u, mid) ==
    resp'.op = "download" /\ resp'.user = u /\ resp'.course = mid

ViewStep(u, mid) ==
    resp'.op = "view" /\ resp'.user = u /\ resp'.course = mid

\* the caller is the material's owning teacher or holds an active
\* enrollment in the material's course
OwnerOrEnrolled(u, mid) ==
    \/ u \in Teachers /\ materials[mid].teacher = u
    \/ BagIn(CourseEnrollment(u, materials[mid].course, TRUE), enrollments)

\* C19: a successful download adds exactly 1 to download_count and exactly
\* one MaterialAccess row (caller, material, 'download') and leaves
\* view_count as it is; a successful view adds exactly 1 to view_count and
\* exactly one row (caller, material, 'view') and leaves download_count as
\* it is.
AccessCountsOnce ==
    [][\A u \in Users, mid \in Materials :
          /\ (DownloadStep(u, mid) /\ resp'.code = 200) =>
                 /\ materials' = [materials EXCEPT ![mid].download_count = @ + 1]
                 /\ accesses' = accesses (+) SetToBag({MaterialAccess(u, mid, "download")})
          /\ (ViewStep(u, mid) /\ resp'.code = 200) =>
                 /\ materials' = [materials EXCEPT ![mid].view_count = @ + 1]
                 /\ accesses' = accesses (+) SetToBag({MaterialAccess(u, mid, "view")})]_vars

\* a download succeeded on a material that was downloaded and viewed before
AccessCountsWitness ==
    /\ resp.op = "download" /\ resp.code = 200
    /\ \E m \in Materials :
           /\ resp.course = m
           /\ materials[m].download_count = 2
           /\ materials[m].view_count = 1
           /\ BagCardinality(accesses) = 3
           /\ CopiesIn(MaterialAccess(resp.user, m, "download"), accesses) >= 1

\* C20: download is answered 403 when is_downloadable is false (also for the
\* owning teacher) and when the caller is neither the owning teacher nor
\* actively enrolled, and succeeds otherwise; view is answered 403 in the
\* second case only and succeeds otherwise, whatever is_downloadable and
\* is_public; a download or view that is not answered 200 leaves the
\* MaterialAccess rows and the Material row unchanged.
AccessGatesRejectWithoutWrite ==
    [][\A u \in Users :
          /\ \A mid \in Materials :
                /\ DownloadStep(u, mid) =>
                       IF ~materials[mid].is_downloadable \/ ~OwnerOrEnrolled(u, mid)
                       THEN resp'.code = 403
                       ELSE resp'.code = 200
                /\ ViewStep(u, mid) =>
                       IF ~OwnerOrEnrolled(u, mid)
                       THEN resp'.code = 403
                       ELSE resp'.code = 200
          /\ \A mid \in MaterialIds :
                ((DownloadStep(u, mid) \/ ViewStep(u, mid)) /\ resp'.code # 200)
                    => UNCHANGED <<materials, accesses>>]_vars

\* the owning teacher is refused the download of a material that is not
\* downloadable and that has been viewed
AccessGatesWitness ==
    /\ resp.op = "download" /\ resp.code = 403
    /\ \E m \in Materials :
           /\ resp.course = m
           /\ resp.user = materials[m].teacher
           /\ ~materials[m].is_downloadable
           /\ materials[m].view_count >= 1
           /\ materials[m].download_count = 0

\* C21: the MaterialAccess log is append-only: no request (download, view,
\* stats, material update or delete) changes or removes a row that exists,
\* so every row is in the log after a step at least as often as before it.
AccessLogAppendOnly ==
    [][\A r \in BagToSet(accesses) :
          CopiesIn(r, accesses') >= CopiesIn(r, accesses)]_vars

ListStep == resp.op = "list_courses" /\ resp.code = 200

\* the courses a teacher owns
OwnCourses(u) == {c \in DOMAIN courses : courses[c].teacher = u}
PublishedCourses == {c \in DOMAIN courses : courses[c].status = "published"}

\* C22: the course list returned to a teacher holds exactly that teacher's own
\* courses, whatever their status, and the list returned to a non-teacher
\* holds exactly the published courses.
CourseListOwnOrPublished ==
    ListStep =>
        listing.entries = IF is_teacher(resp.user)
                          THEN OwnCourses(resp.user)
                          ELSE PublishedCourses

\* a PUT, PATCH or DELETE on a course's detail URL has just been answered
CourseWriteStep == resp'.op \in {"update", "delete"} /\ resp'.code # 0

\* C23: a PUT, PATCH or DELETE on a course succeeds only when the caller is the
\* teacher who owns the course; for every other caller the request is rejected
\* and the course row is unchanged.
CourseWriteOnlyByOwner ==
    [][CourseWriteStep /\ resp'.course \in DOMAIN courses
          /\ courses[resp'.course].teacher # resp'.user
       => /\ resp'.code \in {403, 404}
          /\ courses' = courses]_vars

LogoutStep == resp'.op = "logout"

\* C24: logout by an authenticated caller reports success whatever refresh
\* token is supplied (valid, malformed, already invalidated or missing), and
\* a logout with a token that is already invalidated leaves the set of
\* invalidated tokens unchanged.
LogoutAlwaysSucceedsIdempotent ==
    [][LogoutStep =>
          /\ resp'.code = 200
          /\ (resp'.course \in blacklisted => blacklisted' = blacklisted)]_vars

\* no request is in flight
AllRequestsCompleted == \A w \in DOMAIN pc : pc[w] = "idle"

\* C25: when enroll and unenroll requests of different students on one course
\* interleave, then once all of them have completed current_students equals
\* the number of active enrollment rows of the course.
NoLostCounterUpdate ==
    AllRequestsCompleted =>
        \A c \in DOMAIN courses :
            courses[c].current_students = ActiveCount(enrollments, c)

\* C26: when rate requests of different students on one course interleave,
\* then once all of them have completed total_ratings equals the number of
\* CourseRating rows of the course and average_rating equals their mean as
\* the column stores it.
AggregatesFreshWhenCompleted ==
    AllRequestsCompleted =>
        \A c \in DOMAIN courses :
            len_ratings(ratings, c) > 0 =>
                /\ courses[c].total_ratings = len_ratings(ratings, c)
                /\ courses[c].average_rating =
                       average_rating_to_db(sum_ratings(ratings, c),
                                            len_ratings(ratings, c))

\* C27: in every reachable state the number of participants of a live class
\* with status registered, approved or attended, and the stored
\* current_participants, are both at most max_participants, also when join
\* requests of different enrolled students interleave.
ParticipantsWithinCapacity ==
    \A l \in DOMAIN live_classes :
        /\ LiveCount(participants, l) <= live_classes[l].max_participants
        /\ live_classes[l].current_participants <= live_classes[l].max_participants

\* a PUT or PATCH on a course, or on a live class, has been applied
CourseUpdated == resp'.op = "update" /\ resp'.code = 200
LiveClassUpdated == resp'.op = "update_live_class" /\ resp'.code = 200

\* C28: a PUT/PATCH on a course cannot set max_students below the course's
\* current_students, and a PUT/PATCH on a live class cannot set
\* max_participants below its current_participants.
UpdateKeepsCapacity ==
    [][/\ CourseUpdated =>
             courses'[resp'.course].max_students
                 >= courses[resp'.course].current_students
       /\ LiveClassUpdated =>
             live_classes'[resp'.course].max_participants
                 >= live_classes[resp'.course].current_participants]_vars

\* C29: in every reachable state each live-class participant whose status is
\* registered, approved or attended holds an active enrollment in the live
\* class's parent course; after a student unenrolls from the course the
\* student no longer counts as a participant of its live classes.
CountedParticipantsAreEnrolled ==
    \A p \in BagToSet(participants) :
        p.live_class \in DOMAIN live_classes /\ p.status \in CountedStatuses =>
            active_enrollment_exists(enrollments, p.student,
                                     live_classes[p.live_class].course)

\* a start request on live class l has just succeeded
StartSucceeds(l) == resp'.op = "start" /\ resp'.course = l /\ resp'.code = 200

\* C30: for each live class at most one start request ever succeeds and
\* started_at is written at most once (a start that succeeds finds the class
\* scheduled and not yet stamped), also when two start requests of the owner
\* interleave; and in every reachable state a live or ended class has
\* started_at set and an ended class has ended_at set.
StartOnceAndStamped ==
    /\ [](\A l \in DOMAIN live_classes :
             /\ live_classes[l].status \in {"live", "ended"}
                    => live_classes[l].started_at # NULL
             /\ live_classes[l].status = "ended"
                    => live_classes[l].ended_at # NULL)
    /\ [][\A l \in DOMAIN live_classes :
             StartSucceeds(l) => /\ live_classes[l].status = "scheduled"
                                 /\ live_classes[l].started_at = NULL]_vars

====
